---- MODULE Spec2Model ----
(***************************************************************************)
(* Model of the request/retry engine of openalexcli                        *)
(* (src/src/openalexcli/api/client.py, class OpenAlexAPI).                 *)
(*                                                                         *)
(* One behaviour is a sequence of _request calls on one engine.  Each      *)
(* iteration of the retry loop is one action, chosen by what the server    *)
(* (or the transport) answers to the HTTP exchange of that iteration.      *)
(* Optional Python values (None or a value) are sequences of length 0 or   *)
(* 1.  random.random() is a draw d of 0..JitterSteps-1 standing for the    *)
(* float d/JitterSteps; the arithmetic on it is exact rational arithmetic. *)
(***************************************************************************)
EXTENDS Integers, Sequences, FiniteSets, TLC

\* ------------------------------------------------------------------ bounds
\* largest max_retries the engine is constructed with
MaxRetriesBound == 2
\* largest max_retry_wait the engine is constructed with
MaxWaitBound == 2
\* largest integer a Retry-After header carries
MaxRetryAfter == 2
\* number of distinct values of random.random() that are drawn
JitterSteps == 2
\* number of _request calls made on one engine
MaxCalls == 2

VARIABLES
    max_retries,     \* self.max_retries
    max_retry_wait,  \* self.max_retry_wait
    client,          \* self._client: 0 is None, n > 0 is the n-th httpx.Client
    created,         \* number of httpx.Client objects constructed so far
    closed,          \* set of handles on which close() was called
    pc,              \* "idle", "loop" (inside _request), "returned", "raised"
    attempt,         \* loop variable of _request
    last_error,      \* local last_error of _request
    response,        \* what the exchange of the latest iteration produced
    draw,            \* random.random() of the latest iteration, <<>> if none
    base,            \* wait_time before jitter of the latest iteration
    log,             \* exchanges, status notices and sleeps of this call
    outcome,         \* what the call handed to its caller
    calls            \* number of _request calls started

\* the operations above _request: identifier normalization, parameter
\* construction and the public operations that hand parameters to _request
VARIABLES
    email,           \* self.email
    op,              \* the operation that was called, "none" before any call
    args,            \* the arguments of that call
    sent,            \* the (path, params) pairs the call handed to _request
    result           \* what the call returned or raised

opsVars == <<email, op, args, sent, result>>

vars == <<max_retries, max_retry_wait, client, created, closed, pc, attempt,
          last_error, response, draw, base, log, outcome, calls, opsVars>>

\* ------------------------------------------------------------------ inputs
None == <<>>
Some(v) == <<v>>

\* Retry-After as response.headers.get returns it: None, or the header text
NoHeader == [kind |-> "absent", val |-> 0]
EmptyHeader == [kind |-> "empty", val |-> 0]
DateHeader == [kind |-> "http-date", val |-> 0]
IntHeader(r) == [kind |-> "int", val |-> r]
Headers == {NoHeader, EmptyHeader, DateHeader} \cup {IntHeader(r) : r \in -1..MaxRetryAfter}

\* response bodies: a JSON object with a message, one without, a JSON list,
\* and text that is not JSON
Bodies == {"{\"message\": \"m\"}", "{}", "[]", "<html>"}

OtherStatuses == {201, 301, 500, 503}

\* httpx.RequestError subclasses raised by client.request
Faults == {"ConnectError", "ReadTimeout"}

Draws == 0..(JitterSteps - 1)

NoResponse == [kind |-> "none", status |-> 0, header |-> NoHeader, body |-> "", fault |-> ""]
HttpResponse(s, h, b) == [kind |-> "http", status |-> s, header |-> h, body |-> b, fault |-> ""]
FaultResponse(f) == [kind |-> "fault", status |-> 0, header |-> NoHeader, body |-> "", fault |-> f]

\* what the server can answer to one exchange
Responses ==
    {HttpResponse(200, NoHeader, b) : b \in Bodies}
    \cup {HttpResponse(429, h, "") : h \in Headers}
    \cup {HttpResponse(404, NoHeader, "")}
    \cup {HttpResponse(400, NoHeader, b) : b \in Bodies}
    \cup {HttpResponse(s, NoHeader, "") : s \in OtherStatuses}
    \cup {HttpResponse(503, IntHeader(1), "")}

\* ----------------------------------------------------------------- helpers
Min(a, b) == IF a <= b THEN a ELSE b

\* Python int() of a float: truncation toward zero
TruncDiv(x, y) == IF x >= 0 THEN x \div y ELSE -((-x) \div y)

\* the truth value of the header text in `if retry_after`
Truthy(h) == h.kind \notin {"absent", "empty"}

\* int(retry_after): defined on integer text only, ValueError otherwise
IntParses(h) == h.kind = "int"
IntOf(h) == h.val

\* response.json()
JsonParses(b) == b # "<html>"
Json(b) ==
    CASE b = "{\"message\": \"m\"}" -> [type |-> "dict", message |-> Some("m")]
      [] b = "{}" -> [type |-> "dict", message |-> None]
      [] b = "[]" -> [type |-> "list", message |-> None]
      [] OTHER -> [type |-> "undecodable", message |-> None]

\* ------------------------------------------------------------- exceptions
Exc(t, msg, sc, sug, ra, cause) ==
    [type |-> t, message |-> msg, status_code |-> sc, suggestion |-> sug,
     retry_after |-> ra, cause |-> cause]

APIError(msg, sc, sug, cause) == Exc("APIError", msg, sc, sug, None, cause)

RateLimitError(ra) ==
    Exc("RateLimitError", <<"Rate limit exceeded">>, Some(429),
        Some("Wait a moment or add your email"), ra, None)

\* raised by int(), response.json() and time.sleep(); not an APIError
ValueError(what) == Exc("ValueError", <<what>>, None, None, None, None)

IsAPIError(e) == e.type \in {"APIError", "RateLimitError"}

NoOutcome == [kind |-> "none", value |-> Json(""), exc |-> ValueError("")]
Returned(v) == [kind |-> "return", value |-> v, exc |-> ValueError("")]
Raised(e) == [kind |-> "raise", value |-> Json(""), exc |-> e]

\* ------------------------------------------------------- the status tests
\* response.status_code == 200
IsOK(r) == r.status = 200

\* response.status_code == 429
IsRateLimitedOrUnavailable(r) == r.status \in {429, 503}
IsRateLimited(r) == r.status = 429

\* response.status_code == 404
IsNotFound(r) == r.status = 404

\* response.status_code == 400
IsBadRequest(r) == r.status = 400

\* ------------------------------------------------------------ retry policy
\* for attempt in range(self.max_retries + 1)
InRangeShort(a) == a < max_retries
InRange(a) == a < max_retries + 1

\* the loop variable after `continue`
NextAttemptStuck(a) == a
NextAttempt(a) == a + 1

\* if attempt < self.max_retries
HasAttemptsLeftOffByOne(a) == a < max_retries - 1
HasAttemptsLeft(a) == a < max_retries

\* min(2**attempt, self.max_retry_wait)
BackoffUncapped(a) == 2^a
Backoff(a) == Min(2^a, max_retry_wait)

\* int(retry_after) if retry_after else min(2**attempt, self.max_retry_wait)
PreJitterCapped(h, a) == Min(IF Truthy(h) THEN IntOf(h) ELSE 2^a, max_retry_wait)
PreJitter(h, a) == IF Truthy(h) THEN IntOf(h) ELSE Backoff(a)

\* int(wait_time * (0.75 + random.random() * 0.5))
Jitter(w, d) == TruncDiv(w * (3 * JitterSteps + 2 * d), 4 * JitterSteps)

\* time.sleep(secs) raises ValueError for a negative argument
SleepAccepts(secs) == secs >= 0

\* ---------------------------------------------------------------- events
\* st is the status of the exchange, FaultSt when client.request raised
FaultSt == 0
StatusOf(r) == IF r.kind = "fault" THEN FaultSt ELSE r.status
Exchange(a, r) == [ev |-> "exchange", n |-> a, st |-> StatusOf(r)]
Notice(w) == [ev |-> "notice", n |-> w, st |-> 0]
Sleep(w) == [ev |-> "sleep", n |-> w, st |-> 0]

ExchangeIdx == {i \in 1..Len(log) : log[i].ev = "exchange"}
Count(kind) == Cardinality({i \in 1..Len(log) : log[i].ev = kind})
LastIdx == CHOOSE i \in ExchangeIdx : \A j \in ExchangeIdx : j <= i
\* the latest exchange of the call (only used when there is one)
LastExchange == log[LastIdx]
\* the events that follow the latest exchange
AfterLast == SubSeq(log, LastIdx + 1, Len(log))

\* -------------------------------------------------------------------- Init
\* the state after __init__; max_retries = -1 stands for the negative values
\* the constructor accepts, max_retry_wait is a duration (not negative)
Init ==
    /\ max_retries \in -1..MaxRetriesBound
    /\ max_retry_wait \in 0..MaxWaitBound
    /\ client = 0
    /\ created = 0
    /\ closed = {}
    /\ pc = "idle"
    /\ attempt = 0
    /\ last_error = None
    /\ response = NoResponse
    /\ draw = None
    /\ base = None
    /\ log = <<>>
    /\ outcome = NoOutcome
    /\ calls = 0
    /\ email = None
    /\ op = "none"
    /\ args = <<>>
    /\ sent = <<>>
    /\ result = <<>>

\* --------------------------------------------------------------- actions
\* entry of _request: last_error = None, the loop starts at attempt 0
Request ==
    /\ pc \in {"idle", "returned", "raised"}
    /\ calls < MaxCalls
    /\ calls' = calls + 1
    /\ pc' = "loop"
    /\ attempt' = 0
    /\ last_error' = None
    /\ response' = NoResponse
    /\ draw' = None
    /\ base' = None
    /\ log' = <<>>
    /\ outcome' = NoOutcome
    /\ UNCHANGED <<max_retries, max_retry_wait, client, created, closed, opsVars>>

\* the property `client`: the handle is built by the first use that finds none
UseClientAlwaysBuilds ==
    /\ client' = created + 1
    /\ created' = created + 1
UseClient ==
    IF client = 0
    THEN /\ client' = created + 1
         /\ created' = created + 1
    ELSE UNCHANGED <<client, created>>

\* self.client.request(...) of one iteration
Issue(r) ==
    /\ pc = "loop"
    /\ InRange(attempt)
    /\ UseClient
    /\ response' = r
    /\ UNCHANGED <<max_retries, max_retry_wait, closed, calls, opsVars>>

\* return or raise: the call ends
Finish(o, events) ==
    /\ pc' = IF o.kind = "return" THEN "returned" ELSE "raised"
    /\ outcome' = o
    /\ log' = log \o events
    /\ UNCHANGED attempt

\* continue: the next iteration
Continue(events) ==
    /\ pc' = "loop"
    /\ attempt' = NextAttempt(attempt)
    /\ log' = log \o events
    /\ UNCHANGED outcome

\* return response.json()
Success(r) == Returned(Json(r.body))

\* status 200
OnStatus200 ==
    \E r \in Responses :
        /\ r.kind = "http" /\ IsOK(r)
        /\ Issue(r)
        /\ IF JsonParses(r.body)
           THEN Finish(Success(r), <<Exchange(attempt, r)>>)
           ELSE Finish(Raised(ValueError("JSONDecodeError")), <<Exchange(attempt, r)>>)
        /\ draw' = None
        /\ base' = None
        /\ UNCHANGED last_error

\* status 429
OnStatus429 ==
    \E r \in Responses, d \in Draws :
        /\ r.kind = "http" /\ ~IsOK(r) /\ IsRateLimited(r)
        /\ Issue(r)
        /\ UNCHANGED last_error
        /\ IF Truthy(r.header) /\ ~IntParses(r.header)
           THEN \* int(retry_after) raises, before the draw
                /\ Finish(Raised(ValueError("invalid literal for int()")),
                          <<Exchange(attempt, r)>>)
                /\ draw' = None
                /\ base' = None
           ELSE LET wait_time == Jitter(PreJitter(r.header, attempt), d) IN
                /\ base' = Some(PreJitter(r.header, attempt))
                /\ draw' = Some(d)
                /\ IF HasAttemptsLeft(attempt)
                   THEN IF SleepAccepts(wait_time)
                        THEN Continue(<<Exchange(attempt, r), Notice(wait_time),
                                        Sleep(wait_time)>>)
                        ELSE Finish(Raised(ValueError("sleep length must be non-negative")),
                                    <<Exchange(attempt, r), Notice(wait_time)>>)
                   ELSE Finish(Raised(RateLimitError(
                                   IF Truthy(r.header) THEN Some(IntOf(r.header)) ELSE None)),
                               <<Exchange(attempt, r)>>)

\* status 404
OnStatus404 ==
    \E r \in Responses :
        /\ r.kind = "http" /\ ~IsOK(r) /\ ~IsRateLimited(r) /\ IsNotFound(r)
        /\ Issue(r)
        /\ Finish(Raised(APIError(<<"Entity not found">>, Some(404),
                                  Some("Check the ID format. OpenAlex IDs start with W (works), A (authors), I (institutions), S (sources), etc."),
                                  None)),
                  <<Exchange(attempt, r)>>)
        /\ draw' = None
        /\ base' = None
        /\ UNCHANGED last_error

\* status 400: the message of the body when it decodes to a mapping that has one
BadRequestMessageGeneric(b) == <<"Bad request">>
BadRequestMessage(b) ==
    IF JsonParses(b) /\ Json(b).type = "dict" /\ Json(b).message # None
    THEN Json(b).message
    ELSE <<"Bad request">>

OnStatus400 ==
    \E r \in Responses :
        /\ r.kind = "http" /\ ~IsOK(r) /\ ~IsRateLimited(r) /\ ~IsNotFound(r)
        /\ IsBadRequest(r)
        /\ Issue(r)
        /\ Finish(Raised(APIError(BadRequestMessage(r.body), Some(400),
                                  Some("Check the query parameters and filter syntax"),
                                  None)),
                  <<Exchange(attempt, r)>>)
        /\ draw' = None
        /\ base' = None
        /\ UNCHANGED last_error

\* any other status
OnOtherStatus ==
    \E r \in Responses :
        /\ r.kind = "http" /\ ~IsOK(r) /\ ~IsRateLimited(r) /\ ~IsNotFound(r)
        /\ ~IsBadRequest(r)
        /\ Issue(r)
        /\ Finish(Raised(APIError(<<"API request failed: ", r.status>>, Some(r.status),
                                  None, None)),
                  <<Exchange(attempt, r)>>)
        /\ draw' = None
        /\ base' = None
        /\ UNCHANGED last_error

\* except httpx.RequestError as e
OnRequestError ==
    \E f \in Faults :
        /\ Issue(FaultResponse(f))
        /\ last_error' = Some(f)
        /\ draw' = None
        /\ IF HasAttemptsLeft(attempt)
           THEN LET wait_time == Backoff(attempt) IN
                /\ base' = Some(wait_time)
                /\ Continue(<<Exchange(attempt, FaultResponse(f)), Notice(wait_time),
                              Sleep(wait_time)>>)
           ELSE /\ Finish(Raised(APIError(<<"Connection error: ", f>>, None,
                                          Some("Check your network connection"),
                                          Some(f))),
                          <<Exchange(attempt, FaultResponse(f))>>)
                /\ base' = None

\* the statement after the loop
LoopExhausted ==
    /\ pc = "loop"
    /\ ~InRange(attempt)
    /\ pc' = "raised"
    /\ outcome' = Raised(APIError(<<"Request failed after ", max_retries, " retries">>,
                                  None, None, last_error))
    /\ UNCHANGED <<max_retries, max_retry_wait, client, created, closed, attempt,
                   last_error, response, draw, base, log, calls, opsVars>>

\* close(): closes the handle when there is one
Close ==
    /\ pc # "loop"
    /\ IF client # 0
       THEN /\ closed' = closed \cup {client}
            /\ client' = 0
       ELSE UNCHANGED <<closed, client>>
    /\ UNCHANGED <<max_retries, max_retry_wait, created, pc, attempt, last_error,
                   response, draw, base, log, outcome, calls, opsVars>>

Next ==
    \/ Request
    \/ OnStatus200
    \/ OnStatus429
    \/ OnStatus404
    \/ OnStatus400
    \/ OnOtherStatus
    \/ OnRequestError
    \/ LoopExhausted
    \/ Close

Spec == Init /\ [][Next]_vars

\* ------------------------------------------------------------ strings
\* A string is a sequence of atoms. The atoms are chosen so that every
\* substring the code looks for is a run of whole atoms and no atom contains
\* another one, which makes matching on atoms the same as matching on
\* characters.
MaxPieces == 3

URL == <<"https:", "/", "/", "openalex.org", "/">>
DoiUrl == <<"https:", "/", "/", "doi.org", "/">>
OrcidUrl == <<"https:", "/", "/", "orcid.org", "/">>
RorUrl == <<"https:", "/", "/", "ror.org", "/">>
\* "https:/" + URL + "/openalex.org/": removing the URL leaves the URL
Nested == <<"https:", "/">> \o URL \o <<"/", "openalex.org", "/">>

\* len() of an atom
AtomLen(a) ==
    CASE a \in {"/", "-", "x", "W", "A", "I", "S", "w", "a", "i", "s"} -> 1
      [] a = "10." -> 3
      [] a \in {"doi:", "mag:", "MAG:", "ror:", "0000", "0009", "1234", "5678"} -> 4
      [] a \in {"pmid:", "PMID:", "issn:", "ISSN:"} -> 5
      [] a \in {"https:", "orcid:"} -> 6
      [] a \in {"doi.org", "ror.org"} -> 7
      [] a = "orcid.org" -> 9
      [] a = "openalex.org" -> 12

\* the first character of an atom, for the one-letter tests
FirstChar(a) ==
    CASE a \in {"W", "A", "I", "S"} -> a
      [] a = "ISSN:" -> "I"
      [] OTHER -> "other"

\* str.lower() of an atom
LowerAtom(a) ==
    CASE a = "W" -> "w"
      [] a = "A" -> "a"
      [] a = "I" -> "i"
      [] a = "S" -> "s"
      [] a = "PMID:" -> "pmid:"
      [] a = "MAG:" -> "mag:"
      [] a = "ISSN:" -> "issn:"
      [] OTHER -> a

Lower(s) == [i \in 1..Len(s) |-> LowerAtom(s[i])]

RECURSIVE CharLen(_)
CharLen(s) == IF s = <<>> THEN 0 ELSE AtomLen(Head(s)) + CharLen(Tail(s))

\* s[k] with k counted from 0: IndexError past the end
CharAt(s, k) ==
    IF k >= CharLen(s)
    THEN "IndexError"
    ELSE IF \E i \in 1..Len(s) : s[i] = "-" /\ CharLen(SubSeq(s, 1, i - 1)) = k
         THEN "-"
         ELSE "other"

\* s.startswith(c) for a single letter c
StartsWithChar(s, c) == s # <<>> /\ FirstChar(s[1]) = c

\* t occurs in s at position i
MatchAt(s, t, i) == i + Len(t) - 1 <= Len(s) /\ SubSeq(s, i, i + Len(t) - 1) = t

StartsWith(s, t) == MatchAt(s, t, 1)

\* t in s
Contains(s, t) == \E i \in 1..Len(s) : MatchAt(s, t, i)

\* s.replace(t, u): the occurrences of t are found from the left and do not
\* overlap; what a replacement produces is not searched again
RECURSIVE ReplaceFrom(_, _, _, _)
ReplaceFrom(s, t, u, i) ==
    IF i > Len(s) THEN <<>>
    ELSE IF MatchAt(s, t, i) THEN u \o ReplaceFrom(s, t, u, i + Len(t))
    ELSE <<s[i]>> \o ReplaceFrom(s, t, u, i + 1)

ReplaceOnce(s, t, u) ==
    IF Contains(s, t)
    THEN LET i == CHOOSE j \in 1..Len(s) :
                      MatchAt(s, t, j) /\ \A k \in 1..(j - 1) : ~MatchAt(s, t, k)
         IN  SubSeq(s, 1, i - 1) \o u \o SubSeq(s, i + Len(t), Len(s))
    ELSE s
Replace(s, t, u) == ReplaceFrom(s, t, u, 1)

\* s.split("/")[-1]: what follows the last "/", the whole of s without one
SplitFirst(s) ==
    IF \E i \in 1..Len(s) : s[i] = "/"
    THEN LET i == CHOOSE j \in 1..Len(s) : s[j] = "/" /\ \A k \in 1..(j - 1) : s[k] # "/"
         IN SubSeq(s, 1, i - 1)
    ELSE s
SplitLast(s) ==
    IF \E i \in 1..Len(s) : s[i] = "/"
    THEN LET i == CHOOSE j \in 1..Len(s) : s[j] = "/" /\ \A k \in (j + 1)..Len(s) : s[k] # "/"
         IN SubSeq(s, i + 1, Len(s))
    ELSE s

RECURSIVE Flatten(_)
Flatten(ps) == IF ps = <<>> THEN <<>> ELSE Head(ps) \o Flatten(Tail(ps))

\* ------------------------------------------------ identifier normalization
\* what a function hands back: a value, or an exception
Ok(v) == [raised |-> FALSE, value |-> v]
Raise(e) == [raised |-> TRUE, value |-> <<e>>]

\* _normalize_work_id
normalize_work_id(work_id) ==
    IF StartsWithChar(work_id, "W") \/ StartsWith(work_id, URL)
    THEN Ok(Replace(work_id, URL, <<>>))
    ELSE IF StartsWith(work_id, <<"10.">>) \/ StartsWith(work_id, <<"doi:">>)
    THEN Ok(<<"doi:">> \o Replace(Replace(work_id, <<"doi:">>, <<>>), DoiUrl, <<>>))
    ELSE IF StartsWith(Lower(work_id), <<"pmid:">>)
    THEN Ok(Lower(work_id))
    ELSE IF StartsWith(Lower(work_id), <<"mag:">>)
    THEN Ok(Lower(work_id))
    ELSE IF Contains(work_id, <<"openalex.org">>)
    THEN Ok(SplitLast(work_id))
    ELSE Ok(work_id)

normalize_author_id_letter_only(author_id) ==
    IF StartsWithChar(author_id, "A")
    THEN Ok(Replace(author_id, URL, <<>>))
    ELSE IF Contains(author_id, <<"orcid.org">>) \/ StartsWith(author_id, <<"0000", "-">>)
    THEN Ok(<<"orcid:">> \o Replace(Replace(author_id, OrcidUrl, <<>>), <<"orcid:">>, <<>>))
    ELSE Ok(author_id)
\* _normalize_author_id
normalize_author_id(author_id) ==
    IF StartsWithChar(author_id, "A") \/ StartsWith(author_id, URL)
    THEN Ok(Replace(author_id, URL, <<>>))
    ELSE IF Contains(author_id, <<"orcid.org">>) \/ StartsWith(author_id, <<"0000", "-">>)
    THEN Ok(<<"orcid:">> \o Replace(Replace(author_id, OrcidUrl, <<>>), <<"orcid:">>, <<>>))
    ELSE Ok(author_id)

\* _normalize_institution_id
normalize_institution_id(institution_id) ==
    IF StartsWithChar(institution_id, "I") \/ StartsWith(institution_id, URL)
    THEN Ok(Replace(institution_id, URL, <<>>))
    ELSE IF Contains(institution_id, <<"ror.org">>)
    THEN Ok(<<"ror:">> \o SplitLast(institution_id))
    ELSE IF StartsWith(institution_id, <<"ror:">>)
    THEN Ok(institution_id)
    ELSE Ok(institution_id)

\* len(source_id) == 9, the left operand of the ISSN test
HasIssnLengthUnchecked(source_id) == TRUE
HasIssnLength(source_id) == CharLen(source_id) = 9

\* _normalize_source_id
normalize_source_id(source_id) ==
    IF StartsWithChar(source_id, "S") \/ StartsWith(source_id, URL)
    THEN Ok(Replace(source_id, URL, <<>>))
    ELSE IF HasIssnLength(source_id) /\ CharAt(source_id, 4) = "IndexError"
    THEN Raise("IndexError")
    ELSE IF HasIssnLength(source_id) /\ CharAt(source_id, 4) = "-"
    THEN Ok(<<"issn:">> \o source_id)
    ELSE IF StartsWith(Lower(source_id), <<"issn:">>)
    THEN Ok(Lower(source_id))
    ELSE Ok(source_id)

Kinds == {"work", "author", "institution", "source"}

\* the letter that starts a native identifier of each kind
NativeLetter(kind) ==
    CASE kind = "work" -> "W"
      [] kind = "author" -> "A"
      [] kind = "institution" -> "I"
      [] kind = "source" -> "S"

Normalize(kind, id) ==
    CASE kind = "work" -> normalize_work_id(id)
      [] kind = "author" -> normalize_author_id(id)
      [] kind = "institution" -> normalize_institution_id(id)
      [] kind = "source" -> normalize_source_id(id)

\* the pieces identifiers are put together from
Pieces(kind) ==
    {URL, Nested, <<"/">>, <<"1234">>, <<"x">>, <<NativeLetter(kind)>>} \cup
    CASE kind = "work" ->
           {<<"10.">>, <<"doi:">>, DoiUrl, <<"PMID:">>, <<"pmid:">>, <<"MAG:">>,
            <<"openalex.org">>}
      [] kind = "author" ->
           {OrcidUrl, <<"orcid:">>, <<"0000", "-">>, <<"0009", "-">>, <<"orcid.org">>}
      [] kind = "institution" ->
           {RorUrl, <<"ror.org">>, <<"ror:">>, <<"ISSN:">>}
      [] kind = "source" ->
           {<<"-">>, <<"5678">>, <<"ISSN:">>, <<"issn:">>}

\* every identifier of at most MaxPieces pieces, the empty one included
Ids(kind) ==
    {Flatten(ps) : ps \in UNION {[1..n -> Pieces(kind)] : n \in 0..MaxPieces}}

Emails == {None, Some(<<>>), Some(<<"u@example.org">>)}

\* ------------------------------------------------- parameter construction
\* `if x:` on an optional string or list, and on an optional number
TruthyStr(o) == o # None /\ o[1] # <<>>
TruthyInt(o) == o # None /\ o[1] # 0

\* sep.join(items)
RECURSIVE Join(_, _)
Join(sep, items) ==
    IF items = <<>> THEN <<>>
    ELSE IF Len(items) = 1 THEN items[1]
    ELSE items[1] \o <<sep>> \o Join(sep, Tail(items))

\* the loop over extra_filters.items(): f"{key}:{value}" for the values that
\* are not None, in the mapping's order
ClauseKeepsNone(item) ==
    <<item.key \o <<":">> \o (IF item.value # None THEN item.value[1] ELSE <<"None">>)>>
Clause(item) ==
    IF item.value # None
    THEN <<item.key \o <<":">> \o item.value[1]>>
    ELSE <<>>

ExtraClauses(items) == Flatten([i \in 1..Len(items) |-> Clause(items[i])])

\* the local list `filters`
Filters(a) ==
    (IF TruthyStr(a.filter_str) THEN <<a.filter_str[1]>> ELSE <<>>)
    \o (IF TruthyStr(a.extra_filters) THEN ExtraClauses(a.extra_filters[1]) ELSE <<>>)

FilterParam(a) ==
    IF Filters(a) # <<>> THEN Some(Join(",", Filters(a))) ELSE None

GroupSorts ==
    {<<"key">>, <<"count">>, <<"count:desc">>, <<"count:asc">>, <<"key:desc">>,
     <<"key:asc">>}

SortParamUnrestricted(a) == IF TruthyStr(a.sort) THEN a.sort ELSE None
SortParam(a) ==
    IF TruthyStr(a.group_by)
    THEN IF a.sort # None /\ a.sort[1] \in GroupSorts
         THEN a.sort
         ELSE Some(<<"count:desc">>)
    ELSE IF TruthyStr(a.sort) THEN a.sort ELSE None

SelectParamAlways(a) ==
    IF TruthyStr(a.select) THEN Some(Join(",", a.select[1])) ELSE None
SelectParam(a) ==
    IF TruthyStr(a.group_by)
    THEN None
    ELSE IF TruthyStr(a.select) THEN Some(Join(",", a.select[1])) ELSE None

MailtoParamNever == None
MailtoParam == IF TruthyStr(email) THEN email ELSE None

\* _build_params: a key that is not in the dictionary is None here
build_params(a) ==
    [filter |-> FilterParam(a),
     search |-> IF TruthyStr(a.search) THEN a.search ELSE None,
     group_by |-> IF TruthyStr(a.group_by) THEN a.group_by ELSE None,
     sort |-> SortParam(a),
     select |-> SelectParam(a),
     page |-> IF TruthyInt(a.page) THEN a.page ELSE None,
     per_page |-> IF TruthyInt(a.per_page) THEN a.per_page ELSE None,
     mailto |-> MailtoParam]

\* the keyword defaults of _build_params
NoArgs ==
    [filter_str |-> None, search |-> None, sort |-> None, page |-> None,
     per_page |-> None, select |-> None, group_by |-> None,
     extra_filters |-> None]

Item(k, v) == [key |-> <<k>>, value |-> v]

\* arguments _build_params is called with
BuildArgs ==
    [filter_str : {None, Some(<<>>), Some(<<"type", ":", "article">>)},
     search : {None, Some(<<"q">>)},
     sort : {None, Some(<<>>), Some(<<"cited_by_count:desc">>)}
            \cup {Some(g) : g \in GroupSorts},
     page : {None, Some(0), Some(2)},
     per_page : {None, Some(25)},
     select : {None, Some(<<>>), Some(<<<<"id">>, <<"title">>>>)},
     group_by : {None, Some(<<>>), Some(<<"type">>)},
     extra_filters :
        {None, Some(<<>>),
         Some(<<Item("type", None)>>),
         Some(<<Item("type", Some(<<>>))>>),
         Some(<<Item("type", Some(<<"book">>)), Item("is_oa", None)>>),
         Some(<<Item("is_oa", Some(<<"true">>)), Item("type", Some(<<"book">>))>>)}]


\* ------------------------------------------------------ public operations
DEFAULT_WORK_FIELDS ==
    <<<<"id">>, <<"doi">>, <<"title">>, <<"publication_year">>,
      <<"publication_date">>, <<"type">>, <<"cited_by_count">>,
      <<"open_access">>, <<"authorships">>, <<"primary_location">>,
      <<"abstract_inverted_index">>, <<"topics">>, <<"biblio">>>>

DEFAULT_AUTHOR_FIELDS ==
    <<<<"id">>, <<"orcid">>, <<"display_name">>, <<"works_count">>,
      <<"cited_by_count">>, <<"summary_stats">>, <<"affiliations">>,
      <<"last_known_institutions">>, <<"topics">>>>

DEFAULT_INSTITUTION_FIELDS ==
    <<<<"id">>, <<"ror">>, <<"display_name">>, <<"country_code">>, <<"type">>,
      <<"works_count">>, <<"cited_by_count">>, <<"summary_stats">>>>

DEFAULT_SOURCE_FIELDS ==
    <<<<"id">>, <<"issn_l">>, <<"display_name">>, <<"type">>, <<"works_count">>,
      <<"cited_by_count">>, <<"is_oa">>, <<"summary_stats">>>>

DefaultFields(kind) ==
    CASE kind = "work" -> DEFAULT_WORK_FIELDS
      [] kind = "author" -> DEFAULT_AUTHOR_FIELDS
      [] kind = "institution" -> DEFAULT_INSTITUTION_FIELDS
      [] kind = "source" -> DEFAULT_SOURCE_FIELDS

\* the collection endpoint of each kind
Path(kind) ==
    CASE kind = "work" -> <<"/works">>
      [] kind = "author" -> <<"/authors">>
      [] kind = "institution" -> <<"/institutions">>
      [] kind = "source" -> <<"/sources">>

\* x or default
OrElse(x, default) == IF TruthyStr(x) THEN x[1] ELSE default

\* self._request("GET", path, params)
Call(path, params) == [path |-> path, params |-> params]

\* what _request hands back to the operation: the decoded body, which stands
\* here as its "id", the one key the operations read, or an APIError
Found(kind) == Ok(URL \o <<NativeLetter(kind), "1234">>)
Replies(kind) == {Found(kind), Raise("APIError")}

\* what one operation did: the requests it made and what it returned or raised
Did(requests, r) == [sent |-> requests, result |-> r]

\* params = {"select": ",".join(fields)} and mailto, of get_work, get_author,
\* get_institution and get_source
EntityParams(fields) ==
    [filter |-> None, search |-> None, group_by |-> None, sort |-> None,
     select |-> Some(Join(",", fields)), page |-> None, per_page |-> None,
     mailto |-> MailtoParam]

\* the body shared by get_work, get_author, get_institution and get_source
GetEntity(kind, id, select, reply) ==
    LET n == Normalize(kind, id)
    IN  IF n.raised
        THEN Did(<<>>, n)
        ELSE Did(<<Call(Path(kind) \o <<"/">> \o n.value,
                        EntityParams(OrElse(select, DefaultFields(kind))))>>,
                 reply)

\* "Get the full OpenAlex ID first if needed": the normalized identifier, or
\* the "id" of the entity a lookup returns without the URL prefix
NativeIdAlwaysLooksUp(kind, id, reply) ==
    LET n == Normalize(kind, id)
    IN  IF n.raised THEN Did(<<>>, n)
        ELSE LET lookup == GetEntity(kind, n.value, Some(<<<<"id">>>>), reply)
             IN  IF lookup.result.raised
                 THEN lookup
                 ELSE Did(lookup.sent, Ok(Replace(lookup.result.value, URL, <<>>)))
NativeId(kind, id, reply) ==
    LET n == Normalize(kind, id)
    IN  IF n.raised THEN Did(<<>>, n)
        ELSE IF StartsWithChar(n.value, NativeLetter(kind)) THEN Did(<<>>, n)
        ELSE LET lookup == GetEntity(kind, n.value, Some(<<<<"id">>>>), reply)
             IN  IF lookup.result.raised
                 THEN lookup
                 ELSE Did(lookup.sent, Ok(Replace(lookup.result.value, URL, <<>>)))

\* the body shared by get_citations and get_references
WorksRelatedToWork(relation, a, lookupReply, reply) ==
    LET native == NativeId("work", a.id, lookupReply)
    IN  IF native.result.raised
        THEN native
        ELSE Did(native.sent \o
                 <<Call(<<"/works">>,
                        build_params([NoArgs EXCEPT
                            !.filter_str = Some(<<relation, ":">> \o native.result.value),
                            !.sort = Some(<<"cited_by_count:desc">>),
                            !.page = a.page,
                            !.per_page = a.per_page,
                            !.select = Some(OrElse(a.select, DEFAULT_WORK_FIELDS))]))>>,
                 reply)

\* the date refinements of search_works and the *_works operations
DateItems(a) ==
    (IF TruthyStr(a.from_date) THEN <<Item("from_publication_date", a.from_date)>> ELSE <<>>)
    \o (IF TruthyStr(a.to_date) THEN <<Item("to_publication_date", a.to_date)>> ELSE <<>>)

\* `if min_citations is not None`
HasMinCitationsTruthy(a) == TruthyInt(a.min_citations)
HasMinCitations(a) == a.min_citations # None

\* the extra_filters search_works builds
SearchWorksItems(a) ==
    DateItems(a)
    \o (IF HasMinCitations(a)
        THEN <<Item("cited_by_count", Some(<<">", ToString(a.min_citations[1])>>))>>
        ELSE <<>>)
    \o (IF a.open_access = Some(TRUE) THEN <<Item("is_oa", Some(<<"true">>))>> ELSE <<>>)
    \o (IF TruthyStr(a.work_type) THEN <<Item("type", a.work_type)>> ELSE <<>>)

DefaultSearchSort == <<"cited_by_count:desc">>

SearchWorksCall(a, reply) ==
    Did(<<Call(<<"/works">>,
               build_params([filter_str |-> a.filter_str,
                             search |-> a.query,
                             sort |-> Some(OrElse(a.sort, DefaultSearchSort)),
                             page |-> a.page,
                             per_page |-> a.per_page,
                             select |-> Some(OrElse(a.select, DEFAULT_WORK_FIELDS)),
                             group_by |-> a.group_by,
                             extra_filters |-> Some(SearchWorksItems(a))]))>>,
        reply)

\* the body shared by search_authors, search_institutions and search_sources
SearchEntities(kind, a, reply) ==
    Did(<<Call(Path(kind),
               build_params([filter_str |-> a.filter_str,
                             search |-> a.query,
                             sort |-> Some(OrElse(a.sort, DefaultSearchSort)),
                             page |-> a.page,
                             per_page |-> a.per_page,
                             select |-> Some(OrElse(a.select, DefaultFields(kind))),
                             group_by |-> a.group_by,
                             extra_filters |-> None]))>>,
        reply)

\* the filter key that ties a work to an entity of each kind
WorksFilterKey(kind) ==
    CASE kind = "author" -> "authorships.author.id"
      [] kind = "institution" -> "authorships.institutions.id"
      [] kind = "source" -> "primary_location.source.id"

DefaultWorksSortAsSearch == <<"cited_by_count:desc">>
DefaultWorksSort == <<"publication_date:desc">>

\* the body shared by get_author_works, get_institution_works and
\* get_source_works
WorksOfEntity(kind, a, lookupReply, reply) ==
    LET native == NativeId(kind, a.id, lookupReply)
    IN  IF native.result.raised
        THEN native
        ELSE Did(native.sent \o
                 <<Call(<<"/works">>,
                        build_params([filter_str |-> a.filter_str,
                                      search |-> None,
                                      sort |-> Some(OrElse(a.sort, DefaultWorksSort)),
                                      page |-> a.page,
                                      per_page |-> a.per_page,
                                      select |-> Some(OrElse(a.select, DEFAULT_WORK_FIELDS)),
                                      group_by |-> a.group_by,
                                      extra_filters |->
                                          Some(<<Item(WorksFilterKey(kind),
                                                      Some(native.result.value))>>
                                               \o DateItems(a))]))>>,
                 reply)

\* ------------------------------------------------------------- operations
\* One call of one operation on a freshly constructed client. The calls share
\* no state but self.email, which nothing writes after __init__.
InitOps ==
    /\ max_retries = 0
    /\ max_retry_wait = 0
    /\ client = 0
    /\ created = 0
    /\ closed = {}
    /\ pc = "idle"
    /\ attempt = 0
    /\ last_error = None
    /\ response = NoResponse
    /\ draw = None
    /\ base = None
    /\ log = <<>>
    /\ outcome = NoOutcome
    /\ calls = 0
    /\ email \in Emails
    /\ op = "none"
    /\ args = <<>>
    /\ sent = <<>>
    /\ result = <<>>

Engine == <<max_retries, max_retry_wait, client, created, closed, pc, attempt,
            last_error, response, draw, base, log, outcome, calls>>

\* a call of one of the four _normalize_*_id functions
NormalizeId ==
    /\ op = "none"
    /\ \E kind \in Kinds : \E id \in Ids(kind) :
          /\ op' = "normalize"
          /\ args' = [kind |-> kind, id |-> id]
          /\ result' = Normalize(kind, id)
    /\ UNCHANGED <<email, sent, Engine>>

\* a call of _build_params
BuildParams ==
    /\ op = "none"
    /\ \E a \in BuildArgs :
          /\ op' = "build_params"
          /\ args' = a
          /\ result' = Ok(build_params(a))
    /\ UNCHANGED <<email, sent, Engine>>

\* arguments the public operations are called with
NativeIdOf(kind) == <<NativeLetter(kind), "1234">>

ExternalId(kind) ==
    CASE kind = "work" -> <<"10.", "1234", "/", "x">>
      [] kind = "author" -> <<"0000", "-", "1234">>
      [] kind = "institution" -> RorUrl \o <<"x">>
      [] kind = "source" -> <<"1234", "-", "5678">>

OpIds(kind) == {NativeIdOf(kind), URL \o NativeIdOf(kind), ExternalId(kind), <<"x">>}
OpSelects == {None, Some(<<<<"id">>, <<"title">>>>)}
OpFilterStrs == {None, Some(<<"type", ":", "article">>)}
OpSorts == {None, Some(<<"publication_year:asc">>), Some(<<"key">>)}
OpGroupBys == {None, Some(<<"type">>)}
OpDates == {None, Some(<<"2023-01-01">>)}

EntityArgs(kind) == [id : OpIds(kind), select : OpSelects]

WorksArgsOfWork ==
    [id : OpIds("work"), page : {Some(1)}, per_page : {Some(25)}, select : OpSelects]

WorksArgs(kind) ==
    [id : OpIds(kind), filter_str : OpFilterStrs, from_date : OpDates,
     to_date : OpDates, sort : OpSorts, page : {Some(1)}, per_page : {Some(25)},
     select : OpSelects, group_by : OpGroupBys]

SearchArgs ==
    [query : {Some(<<"q">>)}, filter_str : OpFilterStrs, sort : OpSorts,
     page : {Some(1)}, per_page : {Some(25)}, select : OpSelects,
     group_by : OpGroupBys]

SearchWorksArgs ==
    [query : {None, Some(<<"q">>)}, filter_str : OpFilterStrs, from_date : OpDates,
     to_date : OpDates, min_citations : {None, Some(0), Some(100)},
     open_access : {None, Some(FALSE), Some(TRUE)},
     work_type : {None, Some(<<"article">>)}, sort : OpSorts, page : {Some(1)},
     per_page : {Some(25)}, select : OpSelects, group_by : OpGroupBys]

\* a call of get_work
get_work ==
    /\ op = "none"
    /\ \E a \in EntityArgs("work") : \E reply \in Replies("work") :
          LET did == GetEntity("work", a.id, a.select, reply)
          IN  /\ op' = "get_work"
              /\ args' = a
              /\ sent' = did.sent
              /\ result' = did.result
    /\ UNCHANGED <<email, Engine>>

\* a call of get_author
get_author ==
    /\ op = "none"
    /\ \E a \in EntityArgs("author") : \E reply \in Replies("author") :
          LET did == GetEntity("author", a.id, a.select, reply)
          IN  /\ op' = "get_author"
              /\ args' = a
              /\ sent' = did.sent
              /\ result' = did.result
    /\ UNCHANGED <<email, Engine>>

\* a call of get_institution
get_institution ==
    /\ op = "none"
    /\ \E a \in EntityArgs("institution") : \E reply \in Replies("institution") :
          LET did == GetEntity("institution", a.id, a.select, reply)
          IN  /\ op' = "get_institution"
              /\ args' = a
              /\ sent' = did.sent
              /\ result' = did.result
    /\ UNCHANGED <<email, Engine>>

\* a call of get_source
get_source ==
    /\ op = "none"
    /\ \E a \in EntityArgs("source") : \E reply \in Replies("source") :
          LET did == GetEntity("source", a.id, a.select, reply)
          IN  /\ op' = "get_source"
              /\ args' = a
              /\ sent' = did.sent
              /\ result' = did.result
    /\ UNCHANGED <<email, Engine>>

\* a call of get_citations
get_citations ==
    /\ op = "none"
    /\ \E a \in WorksArgsOfWork : \E lookupReply \in Replies("work") : \E reply \in Replies("work") :
          LET did == WorksRelatedToWork("cites", a, lookupReply, reply)
          IN  /\ op' = "get_citations"
              /\ args' = a
              /\ sent' = did.sent
              /\ result' = did.result
    /\ UNCHANGED <<email, Engine>>

\* a call of get_references
get_references ==
    /\ op = "none"
    /\ \E a \in WorksArgsOfWork : \E lookupReply \in Replies("work") : \E reply \in Replies("work") :
          LET did == WorksRelatedToWork("cited_by", a, lookupReply, reply)
          IN  /\ op' = "get_references"
              /\ args' = a
              /\ sent' = did.sent
              /\ result' = did.result
    /\ UNCHANGED <<email, Engine>>

\* a call of get_author_works
get_author_works ==
    /\ op = "none"
    /\ \E a \in WorksArgs("author") : \E lookupReply \in Replies("author") : \E reply \in Replies("work") :
          LET did == WorksOfEntity("author", a, lookupReply, reply)
          IN  /\ op' = "get_author_works"
              /\ args' = a
              /\ sent' = did.sent
              /\ result' = did.result
    /\ UNCHANGED <<email, Engine>>

\* a call of get_institution_works
get_institution_works ==
    /\ op = "none"
    /\ \E a \in WorksArgs("institution") : \E lookupReply \in Replies("institution") : \E reply \in Replies("work") :
          LET did == WorksOfEntity("institution", a, lookupReply, reply)
          IN  /\ op' = "get_institution_works"
              /\ args' = a
              /\ sent' = did.sent
              /\ result' = did.result
    /\ UNCHANGED <<email, Engine>>

\* a call of get_source_works
get_source_works ==
    /\ op = "none"
    /\ \E a \in WorksArgs("source") : \E lookupReply \in Replies("source") : \E reply \in Replies("work") :
          LET did == WorksOfEntity("source", a, lookupReply, reply)
          IN  /\ op' = "get_source_works"
              /\ args' = a
              /\ sent' = did.sent
              /\ result' = did.result
    /\ UNCHANGED <<email, Engine>>

\* a call of search_works
search_works ==
    /\ op = "none"
    /\ \E a \in SearchWorksArgs : \E reply \in Replies("work") :
          LET did == SearchWorksCall(a, reply)
          IN  /\ op' = "search_works"
              /\ args' = a
              /\ sent' = did.sent
              /\ result' = did.result
    /\ UNCHANGED <<email, Engine>>

\* a call of search_authors
search_authors ==
    /\ op = "none"
    /\ \E a \in SearchArgs : \E reply \in Replies("author") :
          LET did == SearchEntities("author", a, reply)
          IN  /\ op' = "search_authors"
              /\ args' = a
              /\ sent' = did.sent
              /\ result' = did.result
    /\ UNCHANGED <<email, Engine>>

\* a call of search_institutions
search_institutions ==
    /\ op = "none"
    /\ \E a \in SearchArgs : \E reply \in Replies("institution") :
          LET did == SearchEntities("institution", a, reply)
          IN  /\ op' = "search_institutions"
              /\ args' = a
              /\ sent' = did.sent
              /\ result' = did.result
    /\ UNCHANGED <<email, Engine>>

\* a call of search_sources
search_sources ==
    /\ op = "none"
    /\ \E a \in SearchArgs : \E reply \in Replies("source") :
          LET did == SearchEntities("source", a, reply)
          IN  /\ op' = "search_sources"
              /\ args' = a
              /\ sent' = did.sent
              /\ result' = did.result
    /\ UNCHANGED <<email, Engine>>

NextOps ==
    \/ NormalizeId
    \/ BuildParams
    \/ get_work
    \/ get_author
    \/ get_institution
    \/ get_source
    \/ get_citations
    \/ get_references
    \/ get_author_works
    \/ get_institution_works
    \/ get_source_works
    \/ search_works
    \/ search_authors
    \/ search_institutions
    \/ search_sources

SpecOps == InitOps /\ [][NextOps]_vars

\* ---------------------------------------------------------------- session
\* One command of the CLI: `with OpenAlexAPI(...) as api:` around one call of
\* get_citations, whose requests run through _request, and the end of the
\* block. The log holds the events of the whole operation, each request
\* opening with a "request" event.
RequestEvent(call) == [ev |-> "request", n |-> Len(call.path), st |-> 0]

\* the requests get_citations makes for these arguments when every one of
\* them returns an entity
Planned(a) == WorksRelatedToWork("cites", a, Found("work"), Found("work")).sent

\* the auxiliary lookup has been issued and the /works query has not
InLookup == op = "get_citations" /\ Len(sent) = 1 /\ Len(sent[1].path) > 1

InitSession ==
    /\ max_retries \in -2..2
    /\ max_retry_wait \in {0, 2}
    /\ client = 0
    /\ created = 0
    /\ closed = {}
    /\ pc = "idle"
    /\ attempt = 0
    /\ last_error = None
    /\ response = NoResponse
    /\ draw = None
    /\ base = None
    /\ log = <<>>
    /\ outcome = NoOutcome
    /\ calls = 0
    /\ email = None
    /\ op = "none"
    /\ args = <<>>
    /\ sent = <<>>
    /\ result = <<>>

\* entry of _request for one request of the operation
EnterRequestKeepsAttempt(call) ==
    /\ calls' = calls + 1
    /\ pc' = "loop"
    /\ attempt' = attempt
    /\ last_error' = None
    /\ response' = NoResponse
    /\ draw' = None
    /\ base' = None
    /\ outcome' = NoOutcome
    /\ log' = log \o <<RequestEvent(call)>>
    /\ sent' = sent \o <<call>>
    /\ UNCHANGED <<max_retries, max_retry_wait, client, created, closed, email>>
EnterRequest(call) ==
    /\ calls' = calls + 1
    /\ pc' = "loop"
    /\ attempt' = 0
    /\ last_error' = None
    /\ response' = NoResponse
    /\ draw' = None
    /\ base' = None
    /\ outcome' = NoOutcome
    /\ log' = log \o <<RequestEvent(call)>>
    /\ sent' = sent \o <<call>>
    /\ UNCHANGED <<max_retries, max_retry_wait, client, created, closed, email>>

\* api.get_citations(work_id) inside the block: the first request it makes
BeginOperation ==
    /\ op = "none"
    /\ pc = "idle"
    /\ \E a \in {x \in WorksArgsOfWork :
                    x.select = None /\ x.id \in {NativeIdOf("work"), ExternalId("work")}} :
          /\ op' = "get_citations"
          /\ args' = a
          /\ EnterRequest(Planned(a)[1])
    /\ UNCHANGED result

\* the lookup returned an entity: its id goes into the /works query
MainQuery ==
    /\ InLookup
    /\ pc = "returned"
    /\ outcome.value.type = "dict"
    /\ EnterRequest(Planned(args)[2])
    /\ UNCHANGED <<op, args, result>>

\* the block ends by normal completion, by handle_error's exit code 1 after
\* an APIError, or by any other exception; __exit__ calls close()
ExitScopeOnSuccessOnly ==
    /\ op = "get_citations"
    /\ pc \in {"returned", "raised"}
    /\ \E how \in {"completed", "exit code 1", "exception"} :
          /\ how = "completed" => (pc = "returned" /\ ~InLookup)
          /\ how = "exit code 1" => (pc = "raised" /\ IsAPIError(outcome.exc))
          /\ how = "exception" => (pc = "returned" \/ ~IsAPIError(outcome.exc))
          /\ result' = <<how>>
          /\ IF client # 0 /\ how = "completed"
             THEN /\ closed' = closed \cup {client}
                  /\ client' = 0
             ELSE UNCHANGED <<closed, client>>
    /\ op' = "exited"
    /\ UNCHANGED <<max_retries, max_retry_wait, created, pc, attempt, last_error,
                   response, draw, base, log, outcome, calls, email, args, sent>>
ExitScope ==
    /\ op = "get_citations"
    /\ pc \in {"returned", "raised"}
    /\ \E how \in {"completed", "exit code 1", "exception"} :
          /\ how = "completed" => (pc = "returned" /\ ~InLookup)
          /\ how = "exit code 1" => (pc = "raised" /\ IsAPIError(outcome.exc))
          /\ how = "exception" => (pc = "returned" \/ ~IsAPIError(outcome.exc))
          /\ result' = <<how>>
          /\ IF client # 0
             THEN /\ closed' = closed \cup {client}
                  /\ client' = 0
             ELSE UNCHANGED <<closed, client>>
    /\ op' = "exited"
    /\ UNCHANGED <<max_retries, max_retry_wait, created, pc, attempt, last_error,
                   response, draw, base, log, outcome, calls, email, args, sent>>

NextSession ==
    \/ BeginOperation
    \/ MainQuery
    \/ OnStatus200
    \/ OnStatus429
    \/ OnStatus404
    \/ OnStatus400
    \/ OnOtherStatus
    \/ OnRequestError
    \/ LoopExhausted
    \/ ExitScope

SpecSession == InitSession /\ [][NextSession]_vars

\* ----------------------------------------------------------------- bibtex
\* formatters/bibtex.py: text is a sequence of characters; "a" stands for the
\* characters LaTeX does not treat specially, and the letters of a command
\* name are one atom
MaxText == 2

\* replacements, in the order the loop applies them
Replacements ==
    << [old |-> "\\", new |-> <<"\\", "textbackslash", "{", "}">>],
       [old |-> "&", new |-> <<"\\", "&">>],
       [old |-> "%", new |-> <<"\\", "%">>],
       [old |-> "$", new |-> <<"\\", "$">>],
       [old |-> "#", new |-> <<"\\", "#">>],
       [old |-> "_", new |-> <<"\\", "_">>],
       [old |-> "{", new |-> <<"\\", "{">>],
       [old |-> "}", new |-> <<"\\", "}">>],
       [old |-> "~", new |-> <<"\\", "textasciitilde", "{", "}">>],
       [old |-> "^", new |-> <<"\\", "textasciicircum", "{", "}">>] >>

\* for old, new in replacements: text = text.replace(old, new)
RECURSIVE ReplaceAllFrom(_, _)
ReplaceAllFrom(text, k) ==
    IF k > Len(Replacements) THEN text
    ELSE ReplaceAllFrom(Replace(text, <<Replacements[k].old>>, Replacements[k].new), k + 1)

escape_latex(text) == IF text = <<>> THEN <<>> ELSE ReplaceAllFrom(text, 1)

TextChars == {Replacements[k].old : k \in 1..Len(Replacements)} \cup {"a"}
Texts == UNION {[1..n -> TextChars] : n \in 0..MaxText}

InitEscape ==
    /\ max_retries = 0
    /\ max_retry_wait = 0
    /\ client = 0
    /\ created = 0
    /\ closed = {}
    /\ pc = "idle"
    /\ attempt = 0
    /\ last_error = None
    /\ response = NoResponse
    /\ draw = None
    /\ base = None
    /\ log = <<>>
    /\ outcome = NoOutcome
    /\ calls = 0
    /\ email = None
    /\ op = "none"
    /\ args \in Texts
    /\ sent = <<>>
    /\ result = <<>>

\* a call _escape_latex(text)
EscapeLatex ==
    /\ op = "none"
    /\ op' = "escape_latex"
    /\ result' = escape_latex(args)
    /\ UNCHANGED <<email, args, sent, Engine>>

NextEscape == EscapeLatex

SpecEscape == InitEscape /\ [][NextEscape]_vars

\* ------------------------------------------------------------ properties
Retryable(st) == st \in {429, FaultSt}
Ended == pc \in {"returned", "raised"}
HasExchange == ExchangeIdx # {}
All429 == \A i \in ExchangeIdx : log[i].st = 429

\* C1: for max_retries >= 0 one call of _request performs at most
\* max_retries + 1 exchanges, with attempt indices 0..max_retries, whatever
\* the mix of 429 responses and transport faults.
C1_ExchangesBounded ==
    max_retries >= 0 =>
        /\ Count("exchange") <= max_retries + 1
        /\ \A i \in ExchangeIdx : log[i].n \in 0..max_retries

\* a call that used all its attempts on a mix of 429 responses and faults
C1_Witness ==
    /\ max_retries >= 2
    /\ Ended
    /\ Count("exchange") = max_retries + 1
    /\ \E i, j \in ExchangeIdx : log[i].st = 429 /\ log[j].st = FaultSt

\* C2: an exchange after the first follows only a 429 or a transport fault;
\* any other non-200 status, at any attempt, ends the call with an error at
\* that attempt, with no further exchange and no sleep; a single 404 raises
\* on the first attempt.
C2_OnlyRetryablesAreRetried ==
    /\ \A i \in ExchangeIdx :
           ~Retryable(log[i].st) => i = Len(log)
    /\ \A i \in ExchangeIdx :
           log[i].n > 0 => /\ i > 3
                           /\ log[i - 3].ev = "exchange"
                           /\ Retryable(log[i - 3].st)
    /\ (HasExchange /\ LastExchange.st \notin {200, 429, FaultSt}) =>
           /\ pc = "raised"
           /\ outcome.exc.type = "APIError"
           /\ outcome.exc.status_code = Some(LastExchange.st)
    /\ (HasExchange /\ log[1].st = 404) => (Len(log) = 1 /\ pc = "raised")

\* a 404 that arrives after two retries
C2_Witness ==
    /\ Count("exchange") = 3
    /\ LastExchange.st = 404
    /\ log[1].st = 429
    /\ log[4].st = FaultSt
    /\ pc = "raised"

C4_SuccessReturnsDecodedBody ==
    (HasExchange /\ LastExchange.st = 200) =>
        /\ pc = "returned"
        /\ outcome = Returned(Json(response.body))
        /\ AfterLast = <<>>

\* C5: every call of _request ends by returning a decoded payload or by
\* raising APIError or RateLimitError, for every response and fault.
C5_OnlyClassifiedErrors ==
    Ended => \/ outcome.kind = "return"
             \/ outcome.kind = "raise" /\ IsAPIError(outcome.exc)

\* C6: the sleep after a 429 without Retry-After at attempt a lies within
\* [0.75 * base, 1.25 * base] for base = min(2^a, max_retry_wait).
C6_JitterWithinQuarter ==
    (HasExchange /\ LastExchange.st = 429 /\ response.header.kind = "absent"
       /\ AfterLast # <<>> /\ log[Len(log)].ev = "sleep") =>
        LET b == Min(2^(LastExchange.n), max_retry_wait)
            w == log[Len(log)].n
        IN  /\ 4 * w >= 3 * b
            /\ 4 * w <= 5 * b

\* C7: on a 429 with an integer Retry-After r the wait before jitter is r,
\* whatever the attempt index and max_retry_wait; the exponential backoff
\* min(2^attempt, max_retry_wait) is the wait before jitter only when the
\* header has no value.
C7_RetryAfterPreferred ==
    (HasExchange /\ LastExchange.st = 429) =>
        /\ response.header.kind = "int" => base = Some(response.header.val)
        /\ response.header.kind \in {"absent", "empty"} =>
               base = Some(Min(2^(LastExchange.n), max_retry_wait))
        /\ response.header.kind = "http-date" => base = None

\* a Retry-After of 2 at attempt 1 with max_retry_wait = 1, where the backoff
\* would be 1: the wait before jitter is 2 and the call sleeps
C7_Witness ==
    /\ HasExchange
    /\ LastExchange.st = 429
    /\ LastExchange.n = 1
    /\ response.header = IntHeader(2)
    /\ max_retry_wait = 1
    /\ base = Some(2)
    /\ log[Len(log)].ev = "sleep"

\* C8: every sleep of _request lasts at most max_retry_wait seconds.
C8_SleepAtMostMaxRetryWait ==
    \A i \in 1..Len(log) : log[i].ev = "sleep" => log[i].n <= max_retry_wait

\* C9: a 429 at the attempt of index max_retries raises RateLimitError with
\* status_code 429, retry_after the integer of its Retry-After, None without
\* the header, and nothing happens between the response and the raise.
C9_RateLimitErrorCarriesHint ==
    (HasExchange /\ LastExchange.st = 429 /\ LastExchange.n = max_retries) =>
        /\ pc = "raised"
        /\ outcome.exc.type = "RateLimitError"
        /\ outcome.exc.status_code = Some(429)
        /\ response.header.kind = "int" =>
               outcome.exc.retry_after = Some(response.header.val)
        /\ response.header.kind = "absent" => outcome.exc.retry_after = None
        /\ AfterLast = <<>>

\* C10: a transport fault at attempt a < max_retries is followed by one sleep
\* of exactly min(2^a, max_retry_wait) seconds, with no random draw, and a
\* retry; at a = max_retries it raises, without sleeping, an APIError whose
\* message starts with "Connection error", whose status_code is None and
\* whose cause is the fault.
C10_TransportFault ==
    (HasExchange /\ LastExchange.st = FaultSt) =>
        LET a == LastExchange.n IN
        /\ response.kind = "fault"
        /\ draw = None
        /\ a < max_retries =>
               /\ AfterLast = <<Notice(Min(2^a, max_retry_wait)),
                                Sleep(Min(2^a, max_retry_wait))>>
               /\ pc = "loop"
               /\ attempt = a + 1
               /\ InRange(attempt)
        /\ a >= max_retries =>
               /\ a = max_retries
               /\ AfterLast = <<>>
               /\ pc = "raised"
               /\ outcome.exc.type = "APIError"
               /\ outcome.exc.message[1] = "Connection error: "
               /\ outcome.exc.message[2] = response.fault
               /\ outcome.exc.status_code = None
               /\ outcome.exc.cause = Some(response.fault)

\* three faults with max_retries = 2 and max_retry_wait = 1: the backoff of
\* attempt 1 is capped, the fault of attempt 2 is raised
C10_Witness ==
    /\ max_retries = 2
    /\ max_retry_wait = 1
    /\ Len(log) = 7
    /\ log[4] = [ev |-> "exchange", n |-> 1, st |-> FaultSt]
    /\ log[6] = Sleep(1)
    /\ LastExchange = [ev |-> "exchange", n |-> 2, st |-> FaultSt]
    /\ pc = "raised"
    /\ outcome.exc.cause = Some("ReadTimeout")

\* C11: the error of a non-retryable response depends on the response alone:
\* 404 gives APIError 404 with the suggestion on the W/A/I/S prefixes; 400
\* gives APIError 400 with the message field of a JSON mapping body and
\* "Bad request" otherwise; any status outside {200, 429, 404, 400} gives
\* APIError with that status as status_code.
C11_ErrorIsFunctionOfResponse ==
    (HasExchange /\ LastExchange.st \notin {200, 429, FaultSt}) =>
        /\ pc = "raised"
        /\ outcome.exc.type = "APIError"
        /\ outcome.exc.retry_after = None
        /\ outcome.exc.cause = None
        /\ response.status = 404 =>
               /\ outcome.exc.message = <<"Entity not found">>
               /\ outcome.exc.status_code = Some(404)
               /\ outcome.exc.suggestion = Some("Check the ID format. OpenAlex IDs start with W (works), A (authors), I (institutions), S (sources), etc.")
        /\ response.status = 400 =>
               /\ outcome.exc.status_code = Some(400)
               /\ response.body = "{\"message\": \"m\"}" =>
                      outcome.exc.message = <<"m">>
               /\ response.body \in {"{}", "[]", "<html>"} =>
                      outcome.exc.message = <<"Bad request">>
        /\ response.status \notin {404, 400} =>
               /\ outcome.exc.status_code = Some(response.status)
               /\ outcome.exc.message = <<"API request failed: ", response.status>>

\* a 400 whose body carries a message, received after a retry, and reported
\* with that message
C11_Witness ==
    /\ Count("exchange") = 2
    /\ LastExchange.st = 400
    /\ response.body = "{\"message\": \"m\"}"
    /\ outcome.exc.message = <<"m">>
    /\ outcome.exc.status_code = Some(400)

\* ------------------------------------- properties of parameter construction
\* "given", for an optional argument, is read as the code reads it: the
\* argument is neither None nor empty
Given(o) == TruthyStr(o)

\* v is the field names of `fields` with one comma between neighbours
CommaJoined(v, fields) ==
    /\ Len(v) = 2 * Len(fields) - 1
    /\ \A i \in 1..Len(fields) : v[2 * i - 1] = fields[i][1]
    /\ \A i \in 1..(Len(fields) - 1) : v[2 * i] = ","

SearchOps == {"search_works", "search_authors", "search_institutions", "search_sources"}
EntityWorksOps == {"get_author_works", "get_institution_works", "get_source_works"}

\* the requests of a call that go to a collection endpoint, which are the ones
\* whose parameters _build_params made
ListRequests == {i \in 1..Len(sent) : Len(sent[i].path) = 1}

\* the default field list of each search and *_works operation
DefaultFieldsOf(o) ==
    CASE o = "search_authors" -> DEFAULT_AUTHOR_FIELDS
      [] o = "search_institutions" -> DEFAULT_INSTITUTION_FIELDS
      [] o = "search_sources" -> DEFAULT_SOURCE_FIELDS
      [] OTHER -> DEFAULT_WORK_FIELDS

\* C12: in every parameter set _build_params builds, a given group_by is
\* present and select is absent; without group_by, select is present, as the
\* comma-joined field names, exactly when a non-empty field list was passed.
\* The same holds of what the search and *_works operations hand to
\* _request, where the field list is the caller's or the default one.
C12_GroupByExcludesSelect ==
    /\ op = "build_params" =>
         /\ Given(args.group_by) =>
               result.value.group_by = args.group_by /\ result.value.select = None
         /\ ~Given(args.group_by) =>
               /\ result.value.group_by = None
               /\ (result.value.select # None) <=> (args.select \notin {None, Some(<<>>)})
               /\ result.value.select # None =>
                     CommaJoined(result.value.select[1], args.select[1])
    /\ op \in SearchOps \cup EntityWorksOps =>
         \A i \in ListRequests :
            /\ Given(args.group_by) =>
                  sent[i].params.group_by = args.group_by /\ sent[i].params.select = None
            /\ ~Given(args.group_by) =>
                  /\ sent[i].params.group_by = None
                  /\ sent[i].params.select # None
                  /\ CommaJoined(sent[i].params.select[1],
                                 IF args.select # None THEN args.select[1]
                                 ELSE DefaultFieldsOf(op))

C12_Witness ==
    /\ op = "build_params"
    /\ args.group_by = Some(<<"type">>)
    /\ args.select = Some(<<<<"id">>, <<"title">>>>)
    /\ result.value.group_by = Some(<<"type">>)
    /\ result.value.select = None

\* C13: whenever group_by is given, the sort that _build_params produces is
\* one of key, count, count:asc, count:desc, key:asc, key:desc: a sort
\* argument of that set is kept and any other one, none at all and the search
\* default cited_by_count:desc that search_works passes included, becomes
\* count:desc.
C13_GroupBySortRestricted ==
    LET allowed == {<<"key">>, <<"count">>, <<"count:asc">>, <<"count:desc">>,
                    <<"key:asc">>, <<"key:desc">>}
        restricted(given, sort) ==
            /\ sort # None
            /\ sort[1] \in allowed
            /\ (given # None /\ given[1] \in allowed) => sort = given
            /\ (given = None \/ given[1] \notin allowed) => sort = Some(<<"count:desc">>)
    IN  /\ (op = "build_params" /\ Given(args.group_by)) =>
              restricted(args.sort, result.value.sort)
        /\ (op \in SearchOps \cup EntityWorksOps /\ Given(args.group_by)) =>
              \A i \in ListRequests : restricted(args.sort, sent[i].params.sort)

C13_Witness ==
    /\ op = "search_works"
    /\ args.group_by = Some(<<"type">>)
    /\ args.sort = None
    /\ sent[1].params.sort = Some(<<"count:desc">>)

\* the clauses the additional filters of the model are expected to render as
ExpectedExtraClauses(e) ==
    CASE e = Some(<<Item("type", Some(<<>>))>>) -> <<<<"type", ":">>>>
      [] e = Some(<<Item("type", Some(<<"book">>)), Item("is_oa", None)>>) ->
           <<<<"type", ":", "book">>>>
      [] e = Some(<<Item("is_oa", Some(<<"true">>)), Item("type", Some(<<"book">>))>>) ->
           <<<<"is_oa", ":", "true">>, <<"type", ":", "book">>>>
      [] OTHER -> <<>>

\* v is the clauses of cs in their order with one comma between neighbours
ClausesJoined(v, cs) ==
    /\ v = Flatten([i \in 1..(2 * Len(cs) - 1) |->
                        IF i % 2 = 1 THEN cs[(i + 1) \div 2] ELSE <<",">>])

\* C14: _build_params produces at most one filter parameter, whose value is
\* the explicit filter string, when given, followed by one key:value clause
\* for each additional filter whose value is not null, in the mapping's order
\* and joined by commas; null values contribute nothing, clauses that name
\* the same key are both kept, and there is no filter key without a clause.
C14_SingleFilterParameter ==
    op = "build_params" =>
        LET explicit == IF Given(args.filter_str) THEN <<args.filter_str[1]>> ELSE <<>>
            clauses == explicit \o ExpectedExtraClauses(args.extra_filters)
        IN  /\ clauses = <<>> => result.value.filter = None
            /\ clauses # <<>> =>
                  /\ result.value.filter # None
                  /\ ClausesJoined(result.value.filter[1], clauses)

C14_Witness ==
    /\ op = "build_params"
    /\ args.filter_str = Some(<<"type", ":", "article">>)
    /\ args.extra_filters = Some(<<Item("type", Some(<<"book">>)), Item("is_oa", None)>>)
    /\ result.value.filter = Some(<<"type", ":", "article", ",", "type", ":", "book">>)

\* ---------------------------------------- properties of the public operations
PublicOps ==
    {"get_work", "get_author", "get_institution", "get_source", "get_citations",
     "get_references", "get_author_works", "get_institution_works",
     "get_source_works"} \cup SearchOps

\* an email is configured when self.email is neither None nor empty
Configured == email # None /\ email[1] # <<>>

\* C15: with a contact email configured, every parameter set a public
\* operation hands to _request, the auxiliary native-ID lookups included,
\* contains mailto equal to that email; with none configured, no parameter
\* set contains mailto.
C15_MailtoInEveryParameterSet ==
    op \in PublicOps =>
        \A i \in 1..Len(sent) :
            /\ Configured => sent[i].params.mailto = email
            /\ ~Configured => sent[i].params.mailto = None

C15_Witness ==
    /\ op = "get_references"
    /\ email = Some(<<"u@example.org">>)
    /\ Len(sent) = 2
    /\ sent[1].path = <<"/works", "/", "doi:", "10.", "1234", "/", "x">>
    /\ sent[1].params.mailto = Some(<<"u@example.org">>)
    /\ sent[2].path = <<"/works">>
    /\ sent[2].params.mailto = Some(<<"u@example.org">>)

\* C16: search_works sends the query as the search parameter and a filter
\* parameter with exactly one clause per supplied refinement, joined by
\* commas after any explicit filter string: from_publication_date:<from_date>,
\* to_publication_date:<to_date>, cited_by_count:><min_citations> whenever
\* min_citations is not null (0 included), is_oa:true only when open_access
\* is true, type:<work_type>; a refinement that is not supplied adds nothing.
C16_SearchWorksFilterClauses ==
    op = "search_works" =>
        LET clauses ==
                (IF Given(args.filter_str) THEN <<args.filter_str[1]>> ELSE <<>>)
                \o (IF Given(args.from_date)
                    THEN <<<<"from_publication_date", ":">> \o args.from_date[1]>>
                    ELSE <<>>)
                \o (IF Given(args.to_date)
                    THEN <<<<"to_publication_date", ":">> \o args.to_date[1]>>
                    ELSE <<>>)
                \o (CASE args.min_citations = Some(0) -> <<<<"cited_by_count", ":", ">", "0">>>>
                      [] args.min_citations = Some(100) -> <<<<"cited_by_count", ":", ">", "100">>>>
                      [] OTHER -> <<>>)
                \o (IF args.open_access = Some(TRUE) THEN <<<<"is_oa", ":", "true">>>> ELSE <<>>)
                \o (IF Given(args.work_type)
                    THEN <<<<"type", ":">> \o args.work_type[1]>>
                    ELSE <<>>)
        IN  /\ Len(sent) = 1
            /\ sent[1].path = <<"/works">>
            /\ sent[1].params.search = args.query
            /\ clauses = <<>> => sent[1].params.filter = None
            /\ clauses # <<>> =>
                  /\ sent[1].params.filter # None
                  /\ ClausesJoined(sent[1].params.filter[1], clauses)

C16_Witness ==
    /\ op = "search_works"
    /\ args.query = Some(<<"q">>)
    /\ args.filter_str = None
    /\ args.min_citations = Some(0)
    /\ args.open_access = Some(TRUE)
    /\ args.from_date = Some(<<"2023-01-01">>)
    /\ args.to_date = None
    /\ args.work_type = None
    /\ sent[1].params.search = Some(<<"q">>)
    /\ sent[1].params.filter =
          Some(<<"from_publication_date", ":", "2023-01-01", ",",
                 "cited_by_count", ":", ">", "0", ",", "is_oa", ":", "true">>)

\* C17: without group_by, the sort the four search operations send is the
\* caller's sort when one is given and cited_by_count:desc otherwise, and the
\* sort the three *_works operations send is the caller's sort when one is
\* given and publication_date:desc otherwise.
C17_DefaultSorts ==
    /\ (op \in SearchOps /\ ~Given(args.group_by)) =>
          /\ ListRequests = {1}
          /\ sent[1].params.sort =
                (IF Given(args.sort) THEN args.sort ELSE Some(<<"cited_by_count:desc">>))
    /\ (op \in EntityWorksOps /\ ~Given(args.group_by)) =>
          /\ ~result.raised => ListRequests # {}
          /\ \A i \in ListRequests :
                sent[i].params.sort =
                    (IF Given(args.sort) THEN args.sort ELSE Some(<<"publication_date:desc">>))

C17_Witness ==
    /\ op = "get_source_works"
    /\ args.id = <<"1234", "-", "5678">>
    /\ args.sort = None
    /\ args.group_by = None
    /\ Len(sent) = 2
    /\ sent[1].path = <<"/sources", "/", "issn:", "1234", "-", "5678">>
    /\ sent[2].path = <<"/works">>
    /\ sent[2].params.sort = Some(<<"publication_date:desc">>)

\* ------------------------------------------------ properties of normalizers
\* the identifier begins with its kind's native letter
BeginsNative(kind, id) == StartsWithChar(id, NativeLetter(kind))

\* the identifier with every https://openalex.org/ taken out, from the left
RECURSIVE WithoutUrl(_)
WithoutUrl(id) ==
    IF id = <<>> THEN <<>>
    ELSE IF Len(id) >= Len(URL) /\ SubSeq(id, 1, Len(URL)) = URL
         THEN WithoutUrl(SubSeq(id, Len(URL) + 1, Len(id)))
         ELSE <<Head(id)>> \o WithoutUrl(Tail(id))

HasUrl(id) == \E i \in 1..Len(id) : i + Len(URL) - 1 <= Len(id) /\ SubSeq(id, i, i + Len(URL) - 1) = URL

Idempotent == Normalize(args.kind, result.value) = result

\* C18 as stated: for every input that begins with its kind's native letter
\* or with https://openalex.org/, normalizing the normalized identifier
\* changes nothing, whatever follows the prefix.
C18_AsStated ==
    (op = "normalize" /\ (BeginsNative(args.kind, args.id) \/ StartsWith(args.id, URL))) =>
        Idempotent

\* C18, amended: for every input that begins with its kind's native letter,
\* or with https://openalex.org/ directly followed by that letter, and from
\* which taking out every https://openalex.org/ leaves none behind,
\* normalizing the normalized identifier changes nothing.
C18_IdempotentOnNativeForms ==
    (/\ op = "normalize"
     /\ \/ BeginsNative(args.kind, args.id)
        \/ /\ StartsWith(args.id, URL)
           /\ BeginsNative(args.kind, SubSeq(args.id, Len(URL) + 1, Len(args.id)))
     /\ ~HasUrl(WithoutUrl(args.id))) =>
        Idempotent

C18_Witness ==
    /\ op = "normalize"
    /\ args.kind = "author"
    /\ args.id = URL \o <<"A", "1234">>
    /\ result = Ok(<<"A", "1234">>)
    /\ Idempotent

\* no rule of the kind's normalizer matches the identifier
NoRuleMatches(kind, id) ==
    /\ ~BeginsNative(kind, id)
    /\ ~StartsWith(id, URL)
    /\ kind = "work" =>
          /\ ~StartsWith(id, <<"10.">>)
          /\ ~StartsWith(id, <<"doi:">>)
          /\ id = <<>> \/ id[1] \notin {"pmid:", "PMID:", "mag:", "MAG:"}
          /\ \A i \in 1..Len(id) : id[i] # "openalex.org"
    /\ kind = "author" =>
          /\ \A i \in 1..Len(id) : id[i] # "orcid.org"
          /\ ~StartsWith(id, <<"0000", "-">>)
    /\ kind = "institution" =>
          /\ \A i \in 1..Len(id) : id[i] # "ror.org"
    /\ kind = "source" =>
          /\ ~(CharLen(id) = 9 /\ CharAt(id, 4) = "-")
          /\ id = <<>> \/ id[1] \notin {"issn:", "ISSN:"}

\* C19: each normalizer is total and permissive: for every input string, the
\* empty one and the ones shorter than any pattern it tests included, it
\* returns a string and never raises, and when no rule of its kind matches
\* the input it returns the input unchanged.
C19_NormalizersTotal ==
    op = "normalize" =>
        /\ ~result.raised
        /\ result.value \in Seq(STRING)
        /\ NoRuleMatches(args.kind, args.id) => result.value = args.id

C19_Witness ==
    /\ op = "normalize"
    /\ args.kind = "source"
    /\ args.id = <<"1234", "-">>
    /\ NoRuleMatches("source", args.id)
    /\ result = Ok(<<"1234", "-">>)

\* the letter of a native ID is followed by digits
Digits(s) == s # <<>> /\ \A i \in 1..Len(s) : s[i] \in {"0000", "1234", "5678"}

IsNativeId(kind, id) == BeginsNative(kind, id) /\ id[1] = NativeLetter(kind) /\ Digits(Tail(id))

\* C20: for each kind, a native ID (the kind's letter followed by digits) is
\* returned unchanged by that kind's normalizer, and the resource URL
\* https://openalex.org/<ID> of a native ID is normalized to the bare <ID>.
C20_NativeIdAndUrl ==
    op = "normalize" =>
        /\ IsNativeId(args.kind, args.id) => result = Ok(args.id)
        /\ (/\ StartsWith(args.id, <<"https:", "/", "/", "openalex.org", "/">>)
            /\ IsNativeId(args.kind, SubSeq(args.id, 6, Len(args.id)))) =>
              result = Ok(SubSeq(args.id, 6, Len(args.id)))

C20_Witness ==
    /\ op = "normalize"
    /\ args.kind = "institution"
    /\ args.id = <<"https:", "/", "/", "openalex.org", "/", "I", "1234">>
    /\ result = Ok(<<"I", "1234">>)

\* s without t at its start, s itself when it does not start with t
WithoutLeading(s, t) == IF StartsWith(s, t) THEN SubSeq(s, Len(t) + 1, Len(s)) ELSE s

\* C21: for every work reference that begins with 10. or doi:,
\* _normalize_work_id returns doi:<doi>, where <doi> is the input with only
\* its leading doi: prefix and https://doi.org/ wrapper removed and every
\* other character kept.
C21_DoiKeptWhole ==
    (/\ op = "normalize"
     /\ args.kind = "work"
     /\ StartsWith(args.id, <<"10.">>) \/ StartsWith(args.id, <<"doi:">>)) =>
        result = Ok(<<"doi:">> \o WithoutLeading(WithoutLeading(args.id, <<"doi:">>), DoiUrl))

\* an ORCID as it is written bare: four digits and a hyphen, then text that
\* holds no wrapper
IsBareOrcid(o) ==
    /\ Len(o) >= 2
    /\ o[1] \in {"0000", "0009", "1234", "5678"}
    /\ o[2] = "-"
    /\ \A i \in 1..Len(o) : o[i] \notin {"orcid.org", "orcid:", "https:"}

\* C22: for every author reference that does not match the native rule and
\* that is an ORCID in its URL form https://orcid.org/<o>, in its bare form
\* <o> (four digits, a hyphen, the rest) or in its prefixed form orcid:<o>,
\* _normalize_author_id returns orcid:<o>.
C22_OrcidForms ==
    (op = "normalize" /\ args.kind = "author") =>
        /\ IsBareOrcid(args.id) => result = Ok(<<"orcid:">> \o args.id)
        /\ (StartsWith(args.id, OrcidUrl) /\ IsBareOrcid(WithoutLeading(args.id, OrcidUrl))) =>
              result = Ok(<<"orcid:">> \o WithoutLeading(args.id, OrcidUrl))
        /\ (StartsWith(args.id, <<"orcid:">>)
            /\ IsBareOrcid(WithoutLeading(args.id, <<"orcid:">>))) =>
              result = Ok(args.id)

\* seg is the last path segment of id: what stands after its last "/"
IsLastSegment(seg, id) ==
    /\ Len(seg) <= Len(id)
    /\ SubSeq(id, Len(id) - Len(seg) + 1, Len(id)) = seg
    /\ \A i \in 1..Len(seg) : seg[i] # "/"
    /\ Len(seg) = Len(id) \/ id[Len(id) - Len(seg)] = "/"

\* C23: for every institution reference that does not match the native rule,
\* one that contains the host ror.org gives ror: followed by the last path
\* segment of the input, and one that is prefixed ror: and has no ROR host is
\* returned as it is.
C23_RorForms ==
    (/\ op = "normalize"
     /\ args.kind = "institution"
     /\ ~BeginsNative("institution", args.id)
     /\ ~StartsWith(args.id, URL)) =>
        /\ (\E i \in 1..Len(args.id) : args.id[i] = "ror.org") =>
              /\ ~result.raised
              /\ Len(result.value) >= 1
              /\ result.value[1] = "ror:"
              /\ IsLastSegment(Tail(result.value), args.id)
        /\ (/\ \A i \in 1..Len(args.id) : args.id[i] # "ror.org"
            /\ StartsWith(args.id, <<"ror:">>)) =>
              result = Ok(args.id)

C23_Witness ==
    /\ op = "normalize"
    /\ args.kind = "institution"
    /\ args.id = <<"https:", "/", "/", "ror.org", "/", "x">>
    /\ result = Ok(<<"ror:", "x">>)

\* the operations that may need a native-ID lookup, and the kind they look up
LookupOps == {"get_citations", "get_references"} \cup EntityWorksOps

KindOf(o) ==
    CASE o = "get_author_works" -> "author"
      [] o = "get_institution_works" -> "institution"
      [] o = "get_source_works" -> "source"
      [] OTHER -> "work"

\* the clause by which the main query of an operation names the entity
MainClause(o, id) ==
    CASE o = "get_citations" -> <<"cites", ":">> \o id
      [] o = "get_references" -> <<"cited_by", ":">> \o id
      [] o = "get_author_works" -> <<"authorships.author.id", ":">> \o id
      [] o = "get_institution_works" -> <<"authorships.institutions.id", ":">> \o id
      [] o = "get_source_works" -> <<"primary_location.source.id", ":">> \o id

\* C24: in get_citations, get_references and the three *_works operations, a
\* normalized reference that starts with the kind's native letter leads to
\* exactly one request, the /works query, and no lookup; any other reference
\* leads to exactly one get-by-id request that selects only id, completed
\* before the /works query, whose filter names the returned id without its
\* https://openalex.org/ prefix; when the lookup fails its error reaches the
\* caller and the /works query is never issued.
C24_LookupBeforeMainQuery ==
    op \in LookupOps =>
        LET kind == KindOf(op)
            n == Normalize(kind, args.id).value
            native == StartsWithChar(n, NativeLetter(kind))
            main == sent[Len(sent)]
        IN  /\ native =>
                  /\ Len(sent) = 1
                  /\ main.path = <<"/works">>
                  /\ Contains(main.params.filter[1], MainClause(op, n))
            /\ ~native =>
                  /\ Len(sent) \in {1, 2}
                  /\ Len(sent[1].path) > 1
                  /\ sent[1].path[1] = Path(kind)[1]
                  /\ sent[1].params.select = Some(<<"id">>)
                  /\ sent[1].params.filter = None
                  /\ Len(sent) = 1 => result = Raise("APIError")
                  /\ Len(sent) = 2 =>
                        /\ main.path = <<"/works">>
                        /\ Contains(main.params.filter[1],
                                    MainClause(op, <<NativeLetter(kind), "1234">>))

C24_Witness ==
    /\ op = "get_author_works"
    /\ args.id = <<"0000", "-", "1234">>
    /\ args.filter_str = None
    /\ args.from_date = None
    /\ args.to_date = None
    /\ Len(sent) = 2
    /\ sent[1].path = <<"/authors", "/", "orcid:", "0000", "-", "1234">>
    /\ sent[1].params.select = Some(<<"id">>)
    /\ sent[2].path = <<"/works">>
    /\ sent[2].params.filter = Some(<<"authorships.author.id", ":", "A", "1234">>)

\* ------------------------------------------- properties of the retry engine
\* C26: each retryable failure with attempts remaining is followed by exactly
\* one status notice, then exactly one sleep, then the next exchange; in
\* every completed call that made an exchange the notices, the sleeps and the
\* exchanges but one are equally many, and nothing follows the last exchange.
C26_NoticeThenSleepThenExchange ==
    /\ \A i \in 1..Len(log) :
          /\ log[i].ev = "notice" =>
                /\ i > 1 /\ log[i - 1].ev = "exchange" /\ Retryable(log[i - 1].st)
                /\ i < Len(log) /\ log[i + 1].ev = "sleep"
          /\ log[i].ev = "sleep" => (i > 1 /\ log[i - 1].ev = "notice")
          /\ (log[i].ev = "exchange" /\ i > 1) => log[i - 1].ev = "sleep"
    /\ (Ended /\ HasExchange) =>
          /\ Count("notice") = Count("sleep")
          /\ Count("sleep") = Count("exchange") - 1
          /\ AfterLast = <<>>

\* the call ended with the error of the statement that follows the loop
LoopFellThrough ==
    /\ pc = "raised"
    /\ outcome.kind = "raise"
    /\ outcome.exc.type = "APIError"
    /\ outcome.exc.message[1] = "Request failed after "

\* C27 as stated: for every max_retries the constructor accepts and every
\* sequence of responses and faults, _request returns or raises from inside
\* the loop, and the error 'Request failed after N retries' is never raised.
C27_AsStated == ~LoopFellThrough

\* C27, amended: for every max_retries >= 0 the loop is never left without a
\* return or a raise, so the error that follows it is never raised; with a
\* negative max_retries the loop body never runs and every call ends with
\* that error without any exchange.
C27_FallThroughOnlyWhenNegative ==
    /\ max_retries >= 0 =>
          /\ ~LoopFellThrough
          /\ pc = "loop" => InRange(attempt)
    /\ (max_retries < 0 /\ Ended) =>
          /\ LoopFellThrough
          /\ log = <<>>
          /\ created = 0

C27_Witness ==
    /\ max_retries = 2
    /\ pc = "raised"
    /\ attempt = 2
    /\ Count("exchange") = 3
    /\ LastExchange.st = FaultSt
    /\ outcome.exc.message[1] # "Request failed after "

\* the positions of the log where a request of the operation starts
RequestIdx == {i \in 1..Len(log) : log[i].ev = "request"}
\* the request an event of the log belongs to
RequestOf(i) == CHOOSE m \in RequestIdx : m <= i /\ \A k \in RequestIdx : k <= i => k <= m
ExchangesOf(m) == {i \in ExchangeIdx : RequestOf(i) = m}
\* the operation began with the auxiliary lookup
NeedsLookup == Len(sent) >= 1 /\ Len(sent[1].path) > 1
\* every request of the operation counts its attempts from 0, one by one, and
\* makes at most max_retries + 1 exchanges
OwnAttemptCounters ==
    \A m \in RequestIdx :
        /\ \A i \in ExchangesOf(m) :
              log[i].n = Cardinality({j \in ExchangesOf(m) : j < i})
        /\ Cardinality(ExchangesOf(m)) <= IF max_retries < 0 THEN 0 ELSE max_retries + 1
\* the first backoff of the main query is min(2^0, max_retry_wait)
MainBackoffRestarts ==
    (Len(sent) = 2 /\ pc = "loop" /\ attempt = 1
        /\ (response.kind = "fault" \/ ~Truthy(response.header)))
    => base = Some(Min(2^0, max_retry_wait))

\* C29 as stated: in an operation that needs the auxiliary lookup, the lookup
\* and the main query each count attempts from 0, the main query's backoff
\* restarts at 2^0, and the operation makes at most 2*(max_retries+1) exchanges.
C29_AsStated ==
    NeedsLookup =>
        /\ OwnAttemptCounters
        /\ MainBackoffRestarts
        /\ Count("exchange") <= 2 * (max_retries + 1)

\* C29 amended: as C29, with the bound on the exchanges of the operation being
\* 2*(max_retries+1) when max_retries >= 0 and 0 when max_retries is negative.
C29_OwnRetryProtocolEach ==
    NeedsLookup =>
        /\ OwnAttemptCounters
        /\ MainBackoffRestarts
        /\ Count("exchange") <= IF max_retries < 0 THEN 0 ELSE 2 * (max_retries + 1)

\* the lookup used all its attempts, with a second backoff of 2, and the main
\* query then used all of its own, the first backoff being 1 again
C29_Witness ==
    /\ max_retries = 2
    /\ max_retry_wait = 2
    /\ Len(sent) = 2
    /\ Count("exchange") = 6
    /\ \E i \in 1..Len(log) : log[i].ev = "sleep" /\ log[i].n = 2 /\ RequestOf(i) = 1
    /\ \E i \in 1..Len(log) : log[i].ev = "sleep" /\ log[i].n = 1 /\ RequestOf(i) # 1

\* C25: after the `with OpenAlexAPI(...)` block has ended, by normal completion,
\* by handle_error's exit code 1 after an APIError, or by any other exception,
\* every handle that was created has been closed and the engine holds none.
C25_ReleasedOnEveryExit ==
    op = "exited" =>
        /\ result[1] \in {"completed", "exit code 1", "exception"}
        /\ client = 0
        /\ \A h \in 1..created : h \in closed

\* the block ended through handle_error after the handle had been created
C25_Witness ==
    /\ op = "exited"
    /\ result = <<"exit code 1">>
    /\ created = 1
    /\ closed = {1}
    /\ client = 0

\* handles are numbered 1..created; the open ones are those not yet closed
OpenHandles == {h \in 1..created : h \notin closed}
AtMostOneOpen ==
    /\ closed \subseteq 1..created
    /\ client \in 0..created
    /\ OpenHandles = IF client = 0 THEN {} ELSE {client}
\* a handle is built only by an exchange that finds none, the first of its call
CreatedOnlyByFirstExchange ==
    created' # created =>
        /\ client = 0
        /\ pc = "loop" /\ attempt = 0
        /\ Len(log') > Len(log) /\ log'[Len(log) + 1].ev = "exchange"
        /\ created' = created + 1
        /\ client' = created'
        /\ closed' = closed
\* a handle is closed only while it is the engine's, and only once
ClosedOnce ==
    closed' # closed =>
        /\ client # 0 /\ client \notin closed
        /\ closed' = closed \cup {client}
        /\ client' = 0
        /\ created' = created
\* the engine lets go of a handle only by closing it; close() without a handle
\* changes nothing
ReleasedOnlyByClose ==
    /\ (client # 0 /\ client' # client) => closed' # closed
    /\ (Close /\ client = 0) => UNCHANGED <<client, created, closed>>

\* C28: across requests with retries, close, further requests and close again,
\* the engine holds at most one open handle, a handle is created only by the
\* first exchange that finds none (not by construction, not on a retry), and no
\* handle is closed twice: close() without a handle is a no-op.
C28_HandleLifecycle ==
    /\ [](AtMostOneOpen)
    /\ [][CreatedOnlyByFirstExchange /\ ClosedOnce /\ ReleasedOnlyByClose]_vars

\* two handles were created by two calls and each was closed
C28_Witness == created = 2 /\ closed = {1, 2} /\ client = 0 /\ calls = 2

\* the escape of one character taken alone
EscapeOfChar(c) ==
    IF \E k \in 1..Len(Replacements) : Replacements[k].old = c
    THEN Replacements[CHOOSE k \in 1..Len(Replacements) : Replacements[k].old = c].new
    ELSE <<c>>

\* C30: _escape_latex escapes each character independently: the output is the
\* concatenation, character by character, of the escape of each special
\* character and of every other character unchanged.
C30_EscapesCharByChar ==
    op = "escape_latex" =>
        result = Flatten([i \in 1..Len(args) |-> EscapeOfChar(args[i])])

====
